---- MODULE Spec2Model ----
(***************************************************************************)
(* A model of hunyxv/uecho: the Reply value and its copy-on-write          *)
(* operations, the localization table, the pooled Error-Reply, and the     *)
(* path of a request through ServeHTTP, the logging middleware and the     *)
(* default HTTP error handler.                                             *)
(*                                                                         *)
(* Pointers are indices: a *reply is an index into the sequence replies,   *)
(* a *errReply an index into the sequence ers; 0 is the nil pointer.       *)
(* Go strings are TLA+ strings; the Chinese texts of the localization      *)
(* table are written in ASCII transliteration.                             *)
(***************************************************************************)
EXTENDS Integers, Sequences, FiniteSets, Bags, TLC

VARIABLES
    replies,   \* the heap of reply structs (enum.go:117-123)
    eci18n,    \* the localization table (enum.go:19)
    ers,       \* the heap of errReply structs (enum.go:179-183)
    pool,      \* errReplyPool: the bag of pooled *errReply (enum.go:68-72)
    owner,     \* per *errReply: the request holding it, 0 when none does
    gen,       \* per *errReply: how many times it has been handed out
    pc,        \* per request: its position in ServeHTTP
    method,    \* per request: the request method
    rerr,      \* per request: the error the handler chain returned
    resp,      \* per request: echo's Response (Committed, Status, body)
    logs,      \* per request: the log entries the middleware emitted
    via,       \* per request: what its handler did, and with which Reply
    ehCalls,   \* per request: how often the error handler was entered for it
    cfg,       \* UEcho configuration: Debug, and whether Logger() is installed
    opsLeft,   \* Reply operations still allowed in this behaviour
    withLeft,  \* per request: With* calls still allowed on its Error-Reply
    last,      \* the most recent call: operation, caller, receiver, argument,
               \* result, and the receiver as it was before the call
    ue,        \* the UEcho struct: premiddleware, middleware, router, routers
    groups,    \* the heap of Group structs (unnamed/part_000:9-15)
    arrays,    \* the heap of backing arrays of the middleware slices
    ctxs,      \* the heap of Context structs (context.go:22-25)
    ctxPool,   \* UEcho.pool: the pooled *Context
    rq,        \* the request ServeHTTP is serving, and what it has run so far
    budget     \* registrations and requests still allowed in this behaviour

vars == <<replies, eci18n, ers, pool, owner, gen, pc, method, rerr, resp, logs,
          via, ehCalls, cfg, opsLeft, withLeft, last,
          ue, groups, arrays, ctxs, ctxPool, rq, budget>>

(***************************************************************************)
(* Bounds of the model.                                                    *)
(***************************************************************************)
MaxOps == 2      \* Reply operations (With*, I18n, accessors) per behaviour
MaxWith == 2     \* WithErr / WithField / WithFields calls per handler of SpecErr
PoolWith == 1    \* WithErr / WithField calls per handler of Spec
ServeOps == 1    \* Reply operations per behaviour of SpecServe
ServeWith == 2   \* WithErr / WithField calls per handler of SpecServe
MaxRegs == 4     \* calls of Pre, Use, Host, Group, Add per behaviour of SpecRoute
RouteReqs == 1   \* requests served in SpecRoute
MaxReqs == 3     \* requests served one after the other in SpecCtx

\* the requests in flight: two, so that errReplyPool is shared
Reqs == {1, 2}

(***************************************************************************)
(* Program constants.                                                      *)
(***************************************************************************)
LANG_ZH_CN == "zh-CN"
LANG_ZH_TW == "zh-TW"
LANG_EN_US == "en-US"
LANG_DEFAULT == LANG_ZH_CN

StatusOK == 200
StatusBadRequest == 400
StatusUnauthorized == 401
StatusNotFound == 404
StatusMethodNotAllowed == 405
StatusInternalServerError == 500

\* net/http.StatusText for the codes the package uses
StatusText(c) ==
    CASE c = 400 -> "Bad Request"
      [] c = 401 -> "Unauthorized"
      [] c = 404 -> "Not Found"
      [] c = 405 -> "Method Not Allowed"
      [] c = 500 -> "Internal Server Error"
      [] OTHER -> ""

MethodGet == "GET"
MethodHead == "HEAD"

\* the untyped nil of an interface{} payload
NilData == "<nil>"

(***************************************************************************)
(* fmt's %d of a non-negative integer.                                     *)
(***************************************************************************)
Digit(d) ==
    CASE d = 0 -> "0" [] d = 1 -> "1" [] d = 2 -> "2" [] d = 3 -> "3"
      [] d = 4 -> "4" [] d = 5 -> "5" [] d = 6 -> "6" [] d = 7 -> "7"
      [] d = 8 -> "8" [] d = 9 -> "9"

RECURSIVE Itoa(_)
Itoa(n) == IF n < 10 THEN Digit(n) ELSE Itoa(n \div 10) \o Digit(n % 10)

\* strings.Contains
Contains(s, t) ==
    \E i \in 1..(Len(s) - Len(t) + 1) : SubSeq(s, i, i + Len(t) - 1) = t

(***************************************************************************)
(* The localization table: init() fills eci18n, key "<code>.<lang>".       *)
(***************************************************************************)
I18nKey(ec, lang) == Itoa(ec) \o "." \o lang

I18nEntries ==
    { <<"200.", LANG_ZH_CN, "qingqiu chenggong">>,
      <<"200.", LANG_ZH_TW, "qingqiu chenggong">>,
      <<"200.", LANG_EN_US, "Success">>,
      <<"400.", LANG_ZH_CN, "qingqiu shibai">>,
      <<"400.", LANG_ZH_TW, "qingqiu shibai">>,
      <<"400.", LANG_EN_US, "Fail">>,
      <<"401.", LANG_ZH_CN, "feifa de qingqiu API xieyi">>,
      <<"401.", LANG_ZH_TW, "feifa de qingqiu API xieyi">>,
      <<"401.", LANG_EN_US, "Invalid Protocol">>,
      <<"403.", LANG_ZH_CN, "quanxian yanzheng shibai, qing chongxin denglu">>,
      <<"403.", LANG_ZH_TW, "quanxian yanzheng shibai, qing chongxin denglu">>,
      <<"403.", LANG_EN_US, "Permission Denied,Please Login! ">>,
      <<"404.", LANG_ZH_CN, "liuliang kongzhi">>,
      <<"404.", LANG_ZH_TW, "liuliang kongzhi">>,
      <<"404.", LANG_EN_US, "Flow Controlled">>,
      <<"405.", LANG_ZH_CN, "zan bu zhichi de fuwu">>,
      <<"405.", LANG_ZH_TW, "zan bu zhichi de fuwu">>,
      <<"405.", LANG_EN_US, "Service Not Found">>,
      <<"410.", LANG_ZH_CN, "zhuangtai yijing shixiao">>,
      <<"410.", LANG_ZH_TW, "zhuangtai yijing shixiao">>,
      <<"410.", LANG_EN_US, "Session has been expired !">>,
      <<"500.", LANG_ZH_CN, "fuwuqi neibu cuowu, qing shaohou zai shi">>,
      <<"500.", LANG_ZH_TW, "fuwuqi neibu cuowu, qing shaohou zai shi">>,
      <<"500.", LANG_EN_US, "Server Internal Error !">>,
      <<"501.", LANG_ZH_CN, "canshu cuowu">>,
      <<"501.", LANG_ZH_TW, "canshu cuowu">>,
      <<"501.", LANG_EN_US, "Parameters are invalid  !">>,
      <<"502.", LANG_ZH_CN, "duqu weixin fuwuqi shuju shibai, qing shaohou zai shi">>,
      <<"502.", LANG_ZH_TW, "canshu cuowu">>,
      <<"502.", LANG_EN_US, "Fecthing informations from wechat's endpoint has been fail, Please try later!">>,
      <<"10302.", LANG_ZH_CN, "jiami fangshi yi biangeng!">>,
      <<"10302.", LANG_ZH_TW, "Encrypt Method has been changed!">>,
      <<"10302.", LANG_EN_US, "Encrypt Method has been changed!">> }

I18nInit ==
    [k \in {e[1] \o e[2] : e \in I18nEntries} |->
        (CHOOSE e \in I18nEntries : e[1] \o e[2] = k)[3]]

(***************************************************************************)
(* The Reply value (type reply) and the canonical Replies.                 *)
(***************************************************************************)
NewReply(httpCode, ec, em) ==
    [httpCode |-> httpCode, ec |-> ec, em |-> em, lang |-> LANG_DEFAULT,
     data |-> NilData]

\* the package-level Replies are the first six structs of the heap
OK == 1
ErrIllegalparams == 2
ErrUnauthorized == 3
ErrNotFound == 4
ErrMethodNotAllowed == 5
ErrInternal == 6

\* a struct literal that names no lang and no data leaves them zero
Literal(httpCode, ec, em) ==
    [httpCode |-> httpCode, ec |-> ec, em |-> em, lang |-> "", data |-> NilData]

Registry ==
    << Literal(StatusOK, 200, ""),
       Literal(StatusBadRequest, 400, StatusText(StatusBadRequest)),
       Literal(StatusUnauthorized, 401, StatusText(StatusUnauthorized)),
       Literal(StatusNotFound, 404, StatusText(StatusNotFound)),
       Literal(StatusMethodNotAllowed, 405, StatusText(StatusMethodNotAllowed)),
       Literal(StatusInternalServerError, 500, StatusText(StatusInternalServerError)) >>

Canonical == 1..Len(Registry)

\* Each With* clones the receiver, sets one field of the clone and returns
\* a pointer to it: heap is the heap after the call, ret the pointer returned.
WithHTTPCode(h, r, c) ==
    [heap |-> Append(h, [h[r] EXCEPT !.httpCode = c]), ret |-> Len(h) + 1]

\* WithEC written through the receiver, without the clone
WithECInPlace(h, r, ec) == [heap |-> [h EXCEPT ![r].ec = ec], ret |-> r]

WithEC(h, r, ec) ==
    [heap |-> Append(h, [h[r] EXCEPT !.ec = ec]), ret |-> Len(h) + 1]

WithEM(h, r, em) ==
    [heap |-> Append(h, [h[r] EXCEPT !.em = em]), ret |-> Len(h) + 1]

WithLang(h, r, lang) ==
    [heap |-> Append(h, [h[r] EXCEPT !.lang = lang]), ret |-> Len(h) + 1]

WithData(h, r, d) ==
    [heap |-> Append(h, [h[r] EXCEPT !.data = d]), ret |-> Len(h) + 1]

HTTPCode(h, r) == h[r].httpCode

EC(h, r) == h[r].ec

EM(h, r) == h[r].em

\* I18n stores the tag in the receiver, then looks the key up: tab is the
\* table after the call, ret the string returned
\* I18n looking the key up before it stores the tag
I18nStaleLang(h, tab, r, lang) ==
    LET key == I18nKey(h[r].ec, h[r].lang)
    IN  [heap |-> [h EXCEPT ![r].lang = lang], tab |-> tab,
         ret |-> IF key \in DOMAIN tab THEN tab[key] ELSE ""]

I18n(h, tab, r, lang) ==
    LET h1 == [h EXCEPT ![r].lang = lang]
        key == I18nKey(h1[r].ec, h1[r].lang)
    IN  [heap |-> h1, tab |-> tab,
         ret |-> IF key \in DOMAIN tab THEN tab[key] ELSE ""]

(***************************************************************************)
(* The Error-Reply (type errReply): the wrapped Reply, the accumulated     *)
(* cause and the diagnostic fields.  The cause is the list of errors that  *)
(* multierr holds: empty for nil, one element for a plain error.  A Go map *)
(* is a function on the keys it holds; isNil tells the nil map apart from  *)
(* the empty one.                                                          *)
(***************************************************************************)
NilErr == "<nil>"

EmptyMap == [k \in {} |-> ""]

NilFields == [isNil |-> TRUE, m |-> EmptyMap]

\* &errReply{}: what errReplyPool.New returns
ZeroEr == [Reply |-> 0, err |-> <<>>, fields |-> NilFields]

\* reset leaving the fields mapping in place
resetKeepFields(e) == [e EXCEPT !.Reply = 0, !.err = <<>>]

reset(e) == [e EXCEPT !.Reply = 0, !.err = <<>>, !.fields = NilFields]

\* the map after "for field, value := range fields { m[field] = value }"
Merge(m, f) ==
    [k \in (DOMAIN m) \cup (DOMAIN f) |-> IF k \in DOMAIN f THEN f[k] ELSE m[k]]

\* The With* methods of *errReply write through the receiver er and return
\* it: ers is the heap after the call, ret the pointer returned.
WithField(es, er, field, value) ==
    [ers |-> [es EXCEPT ![er].fields =
                 [isNil |-> FALSE, m |-> Merge(@.m, [k \in {field} |-> value])]],
     ret |-> er]

\* WithFields storing the batch in place of the mapping
WithFieldsReplace(es, er, fields) ==
    [ers |-> [es EXCEPT ![er].fields = [isNil |-> FALSE, m |-> fields]], ret |-> er]

WithFields(es, er, fields) ==
    [ers |-> [es EXCEPT ![er].fields = [isNil |-> FALSE, m |-> Merge(@.m, fields)]],
     ret |-> er]

\* multierr.AppendInto: a nil error is dropped, any other is appended
AppendInto(into, err) == IF err = NilErr THEN into ELSE Append(into, err)

\* WithErr assigning the error instead of joining it
WithErrOverwrite(es, er, err) ==
    [ers |-> [es EXCEPT ![er].err = IF err = NilErr THEN @ ELSE <<err>>], ret |-> er]

WithErr(es, er, err) ==
    [ers |-> [es EXCEPT ![er].err = AppendInto(@, err)], ret |-> er]

\* multierr's "%+v": a single error prints as itself, several as a list
RECURSIVE Multiline(_)
Multiline(errs) ==
    IF errs = <<>> THEN "" ELSE "\n -  " \o Head(errs) \o Multiline(Tail(errs))

FormatCause(errs) ==
    IF Len(errs) = 1 THEN errs[1]
    ELSE "the following errors occurred:" \o Multiline(errs)

\* errReply.Error: "%+v" of errors.WithMessage(err, EM) is the cause, a
\* newline and the message
\* Error printing the latest cause only
ErrorLastCause(h, e) ==
    IF e.err # <<>>
    THEN e.err[Len(e.err)] \o "\n" \o EM(h, e.Reply)
    ELSE "code: " \o Itoa(EC(h, e.Reply)) \o ", " \o EM(h, e.Reply)

Error(h, e) ==
    IF e.err # <<>>
    THEN FormatCause(e.err) \o "\n" \o EM(h, e.Reply)
    ELSE "code: " \o Itoa(EC(h, e.Reply)) \o ", " \o EM(h, e.Reply)

(***************************************************************************)
(* errReplyPool.  Get hands out a pooled instance or, when it finds none   *)
(* (the pool is empty, or sync.Pool dropped or did not see the pooled      *)
(* ones), the result of New; id = Len(ers) + 1 stands for a new instance.  *)
(***************************************************************************)
GetChoices == BagToSet(pool) \cup {Len(ers) + 1}

ErsAfterGet(id) == IF id > Len(ers) THEN Append(ers, ZeroEr) ELSE ers

PoolAfterGet(id) == IF id > Len(ers) THEN pool ELSE pool (-) SetToBag({id})

\* the three statements every acquisition site runs:
\*   er := errReplyPool.Get().(*errReply); er.reset(); er.Reply = r
Acquired(id, r) ==
    [ErsAfterGet(id) EXCEPT ![id] = [reset(@) EXCEPT !.Reply = r]]

Held(id, q) ==
    IF id > Len(owner) THEN Append(owner, q) ELSE [owner EXCEPT ![id] = q]

Handed(id) ==
    IF id > Len(gen) THEN Append(gen, 1) ELSE [gen EXCEPT ![id] = @ + 1]

\* errReplyPool.Put(er)
Put(p, id) == p (+) SetToBag({id})

(***************************************************************************)
(* The inputs the model draws from.                                        *)
(***************************************************************************)
HTTPCodeArgs == {399, 500}
ECArgs == {999, 10302}
EMArgs == {"", "custom"}
LangArgs == {LANG_EN_US, "fr-FR"}
DataArgs == {"x1"}
ErrArgs == {NilErr, "db down", "timeout"}
FieldKeys == {"rpc", "uid"}
FieldVals == {"/svc", "42"}
FieldMaps == UNION {[S -> FieldVals] : S \in SUBSET FieldKeys}
Methods == {MethodGet, MethodHead}

(***************************************************************************)
(* Requests: the error a handler chain returns, and echo's Response.       *)
(***************************************************************************)
NoErr == [kind |-> "nil", er |-> 0, code |-> 0, msg |-> ""]

\* a *errReply returned as an error
ErrReplyErr(id) == [kind |-> "errReply", er |-> id, code |-> 0, msg |-> ""]

\* echo.ErrNotFound, the *echo.HTTPError that echo.NotFoundHandler returns
EchoErrNotFound ==
    [kind |-> "http", er |-> 0, code |-> StatusNotFound, msg |-> StatusText(StatusNotFound)]

\* an error of any other type
PlainErr == [kind |-> "other", er |-> 0, code |-> 0, msg |-> "boom"]

NoBody == [EC |-> 0, EM |-> "", Data |-> NilData]

\* json.Marshal of a HttpApiResponse, as the members of the JSON object in
\* their order: the tags are "ec", "em" and "data,omitempty", so only a nil
\* Data is left out
Marshal(body) ==
    <<<<"ec", Itoa(body.EC)>>, <<"em", body.EM>>>>
    \o (IF body.Data = NilData THEN <<>> ELSE <<<<"data", body.Data>>>>)

\* echo's Response.reset: nothing written, Status 200
FreshResponse ==
    [committed |-> FALSE, status |-> StatusOK, hasBody |-> FALSE, body |-> NoBody,
     wire |-> <<>>]

\* c.JSON(code, body)
JSON(code, body) ==
    [committed |-> TRUE, status |-> code, hasBody |-> TRUE, body |-> body,
     wire |-> Marshal(body)]

\* c.NoContent(code)
NoContent(code) ==
    [committed |-> TRUE, status |-> code, hasBody |-> FALSE, body |-> NoBody,
     wire |-> <<>>]

NoCall == [op |-> "none", q |-> 0, recv |-> 0, arg |-> 0, ret |-> 0, pre |-> 0]

Call(op, q, recv, arg, ret, pre) ==
    [op |-> op, q |-> q, recv |-> recv, arg |-> arg, ret |-> ret, pre |-> pre]

NoHandler == [op |-> "none", reply |-> 0]

replyVars == <<replies, eci18n, opsLeft>>
poolVars == <<ers, pool, owner, gen>>
reqVars == <<pc, method, rerr, resp, logs, via, ehCalls, withLeft>>
routeVars == <<ue, groups, arrays, ctxs, ctxPool, rq, budget>>


(***************************************************************************)
(* Calls of the Reply interface, by any code of the process.               *)
(***************************************************************************)
ReplyCall(op, r, arg, res) ==
    /\ opsLeft > 0
    /\ opsLeft' = opsLeft - 1
    /\ replies' = res.heap
    /\ last' = Call(op, 0, r, arg, res.ret, replies[r])
    /\ UNCHANGED <<poolVars, reqVars, cfg, routeVars>>

CallWithHTTPCode ==
    \E r \in 1..Len(replies), c \in HTTPCodeArgs :
        /\ ReplyCall("WithHTTPCode", r, c, WithHTTPCode(replies, r, c))
        /\ UNCHANGED eci18n

CallWithEC ==
    \E r \in 1..Len(replies), ec \in ECArgs :
        /\ ReplyCall("WithEC", r, ec, WithEC(replies, r, ec))
        /\ UNCHANGED eci18n

CallWithEM ==
    \E r \in 1..Len(replies), em \in EMArgs :
        /\ ReplyCall("WithEM", r, em, WithEM(replies, r, em))
        /\ UNCHANGED eci18n

CallWithLang ==
    \E r \in 1..Len(replies), lang \in LangArgs :
        /\ ReplyCall("WithLang", r, lang, WithLang(replies, r, lang))
        /\ UNCHANGED eci18n

CallWithData ==
    \E r \in 1..Len(replies), d \in DataArgs :
        /\ ReplyCall("WithData", r, d, WithData(replies, r, d))
        /\ UNCHANGED eci18n

CallI18n ==
    \E r \in 1..Len(replies), lang \in LangArgs :
        /\ ReplyCall("I18n", r, lang, I18n(replies, eci18n, r, lang))
        /\ eci18n' = I18n(replies, eci18n, r, lang).tab

\* HTTPCode(), EC() and EM() read the receiver
CallAccessors ==
    \E r \in 1..Len(replies) :
        ReplyCall("Accessors", r, 0,
                  [heap |-> replies,
                   ret |-> <<HTTPCode(replies, r), EC(replies, r), EM(replies, r)>>])
        /\ UNCHANGED eci18n

(***************************************************************************)
(* A request: ServeHTTP runs the chain, whose handler does one of the      *)
(* things below.                                                           *)
(***************************************************************************)
ServeHTTP(q, M) ==
    \E m \in M :
        /\ pc[q] = "idle"
        /\ pc' = [pc EXCEPT ![q] = "handler"]
        /\ method' = [method EXCEPT ![q] = m]
        /\ last' = Call("ServeHTTP", q, 0, m, 0, 0)
        /\ UNCHANGED <<replyVars, poolVars, rerr, resp, logs, via, ehCalls, withLeft, cfg, routeVars>>

\* the acquisition that Abort, NotFoundHandler and MethodNotAllowedHandler share
Acquire(q, r, id, op, to) ==
    /\ pc[q] = "handler"
    /\ ers' = Acquired(id, r)
    /\ pool' = PoolAfterGet(id)
    /\ owner' = Held(id, q)
    /\ gen' = Handed(id)
    /\ rerr' = [rerr EXCEPT ![q] = ErrReplyErr(id)]
    /\ pc' = [pc EXCEPT ![q] = to]
    /\ via' = [via EXCEPT ![q] = [op |-> op, reply |-> r]]
    /\ last' = Call(op, q, id, r, id, ErsAfterGet(id)[id])
    /\ UNCHANGED <<replyVars, method, resp, logs, ehCalls, withLeft, cfg, routeVars>>

\* er := c.Abort(reply): the handler goes on to decorate er
Abort(q, R) ==
    \E r \in R, id \in GetChoices : Acquire(q, r, id, "Abort", "abort")

\* return NotFoundHandler(c)
NotFoundHandler(q) ==
    \E id \in GetChoices : Acquire(q, ErrNotFound, id, "NotFoundHandler", "returned")

\* return MethodNotAllowedHandler(c)
MethodNotAllowedHandler(q) ==
    \E id \in GetChoices :
        Acquire(q, ErrMethodNotAllowed, id, "MethodNotAllowedHandler", "returned")

\* a With* call on the Error-Reply the handler got from Abort
ErrReplyCall(q, op, arg, res) ==
    /\ pc[q] = "abort"
    /\ withLeft[q] > 0
    /\ withLeft' = [withLeft EXCEPT ![q] = @ - 1]
    /\ ers' = res.ers
    /\ rerr' = [rerr EXCEPT ![q] = ErrReplyErr(res.ret)]
    /\ last' = Call(op, q, rerr[q].er, arg, res.ret, ers[rerr[q].er])
    /\ UNCHANGED <<replyVars, pool, owner, gen, pc, method, resp, logs, via, ehCalls, cfg, routeVars>>

CallWithErr(q, E) ==
    \E e \in E : ErrReplyCall(q, "WithErr", e, WithErr(ers, rerr[q].er, e))

CallWithField(q, K, V) ==
    \E k \in K, v \in V :
        ErrReplyCall(q, "WithField", <<k, v>>, WithField(ers, rerr[q].er, k, v))

CallWithFields(q, F) ==
    \E f \in F : ErrReplyCall(q, "WithFields", f, WithFields(ers, rerr[q].er, f))

\* er.Error(), as a middleware that prints the error calls it
CallError(q) ==
    /\ pc[q] = "abort"
    /\ last' = Call("Error", q, rerr[q].er, 0, Error(replies, ers[rerr[q].er]),
                     ers[rerr[q].er])
    /\ UNCHANGED <<replyVars, poolVars, reqVars, cfg, routeVars>>

\* return er
ReturnErrReply(q) ==
    /\ pc[q] = "abort"
    /\ pc' = [pc EXCEPT ![q] = "returned"]
    /\ last' = Call("return", q, rerr[q].er, 0, 0, 0)
    /\ UNCHANGED <<replyVars, poolVars, method, rerr, resp, logs, via, ehCalls, withLeft, cfg, routeVars>>

\* Context.SetPayload: isErr tells which branch ran; on the error branch a
\* new errReply wrapping p is returned, on the other the response is written
\* SetPayload taking only codes above 400 for errors
SetPayloadAbove400(h, p) ==
    IF h[p].httpCode > 400
    THEN [isErr |-> TRUE, resp |-> FreshResponse]
    ELSE [isErr |-> FALSE,
          resp |-> JSON(h[p].httpCode,
                        [EC |-> h[p].ec, EM |-> h[p].em, Data |-> h[p].data])]

SetPayload(h, p) ==
    IF h[p].httpCode >= 400
    THEN [isErr |-> TRUE, resp |-> FreshResponse]
    ELSE [isErr |-> FALSE,
          resp |-> JSON(h[p].httpCode,
                        [EC |-> h[p].ec, EM |-> h[p].em, Data |-> h[p].data])]

\* return c.SetPayload(p)
CallSetPayload(q, R) ==
    \E p \in R :
        LET res == SetPayload(replies, p)
            id == Len(ers) + 1
        IN  /\ pc[q] = "handler"
            /\ pc' = [pc EXCEPT ![q] = "returned"]
            /\ IF res.isErr
               THEN /\ ers' = Append(ers, [Reply |-> p, err |-> <<>>, fields |-> NilFields])
                    /\ owner' = Append(owner, q)
                    /\ gen' = Append(gen, 1)
                    /\ rerr' = [rerr EXCEPT ![q] = ErrReplyErr(id)]
                    /\ UNCHANGED resp
               ELSE /\ resp' = [resp EXCEPT ![q] = res.resp]
                    /\ UNCHANGED <<ers, owner, gen, rerr>>
            /\ via' = [via EXCEPT ![q] = [op |-> "SetPayload", reply |-> p]]
            /\ last' = Call("SetPayload", q, 0, p, IF res.isErr THEN id ELSE 0, 0)
            /\ UNCHANGED <<replyVars, pool, method, logs, ehCalls, withLeft, cfg, routeVars>>

\* return echo.NotFoundHandler(c), or any handler returning another error
ReturnError(q) ==
    \E e \in {EchoErrNotFound, PlainErr} :
        /\ pc[q] = "handler"
        /\ pc' = [pc EXCEPT ![q] = "returned"]
        /\ rerr' = [rerr EXCEPT ![q] = e]
        /\ via' = [via EXCEPT ![q] = [op |-> "returnError", reply |-> 0]]
        /\ last' = Call("returnError", q, 0, e.kind, 0, 0)
        /\ UNCHANGED <<replyVars, poolVars, method, resp, logs, ehCalls, withLeft, cfg, routeVars>>

\* return ctx.JSON(code, h): the handler writes the response itself
WriteJSON(q) ==
    \E code \in {StatusOK, StatusInternalServerError} :
        /\ pc[q] = "handler"
        /\ pc' = [pc EXCEPT ![q] = "returned"]
        /\ resp' = [resp EXCEPT ![q] = JSON(code, [EC |-> 0, EM |-> "", Data |-> "x1"])]
        /\ via' = [via EXCEPT ![q] = [op |-> "JSON", reply |-> 0]]
        /\ last' = Call("JSON", q, 0, code, 0, 0)
        /\ UNCHANGED <<replyVars, poolVars, method, rerr, logs, ehCalls, withLeft, cfg, routeVars>>

(***************************************************************************)
(* UEcho.DefaultHTTPErrorHandler.                                          *)
(***************************************************************************)
\* every error that is not a *errReply answered as 500
NormalisedReplyInternal(e) ==
    NewReply(StatusInternalServerError, StatusInternalServerError,
             StatusText(StatusInternalServerError))

\* the Reply built for an error that is not a *errReply
NormalisedReply(e) ==
    IF e.kind = "http"
    THEN NewReply(e.code, e.code, e.msg)
    ELSE NewReply(StatusInternalServerError, StatusInternalServerError,
                  StatusText(StatusInternalServerError))

\* the response with the rendered error chain whatever e.Debug says
ErrorResponseVerbose(h, es, er, m, debug) ==
    LET code == EC(h, es[er].Reply)
    IN  IF m = MethodHead
        THEN NoContent(code)
        ELSE JSON(HTTPCode(h, es[er].Reply),
                  [EC |-> code, EM |-> Error(h, es[er]), Data |-> NilData])

\* the response written for Error-Reply er: code and message, then NoContent
\* for HEAD and JSON otherwise
ErrorResponse(h, es, er, m, debug) ==
    LET code == EC(h, es[er].Reply)
        message == IF debug THEN Error(h, es[er]) ELSE EM(h, es[er].Reply)
    IN  IF m = MethodHead
        THEN NoContent(code)
        ELSE JSON(HTTPCode(h, es[er].Reply),
                  [EC |-> code, EM |-> message, Data |-> NilData])

\* the deferred errReplyPool.Put(er): the instance goes back as it is
Release(es, er) == es

\* op names the caller; the call is recorded with the Error-Reply it used
\* and whether it wrote the response (1) or found it committed (0)
DefaultHTTPErrorHandler(q, e, op) ==
    /\ ehCalls' = [ehCalls EXCEPT ![q] = @ + 1]
    /\ IF resp[q].committed
       THEN /\ last' = Call(op, q, e.er, e.kind, 0, 0)
            /\ UNCHANGED <<replies, ers, pool, owner, gen, resp>>
       ELSE IF e.kind = "errReply"
       THEN /\ resp' = [resp EXCEPT ![q] =
                   ErrorResponse(replies, ers, e.er, method[q], cfg.debug)]
            /\ ers' = Release(ers, e.er)
            /\ pool' = Put(pool, e.er)
            /\ owner' = [owner EXCEPT ![e.er] = 0]
            /\ last' = Call(op, q, e.er, e.kind, 1, ers[e.er])
            /\ UNCHANGED <<replies, gen>>
       ELSE \E id \in GetChoices :
            /\ replies' = Append(replies, NormalisedReply(e))
            /\ resp' = [resp EXCEPT ![q] =
                   ErrorResponse(replies', Acquired(id, Len(replies')), id,
                                 method[q], cfg.debug)]
            /\ ers' = Release(Acquired(id, Len(replies')), id)
            /\ pool' = Put(PoolAfterGet(id), id)
            /\ owner' = Held(id, 0)
            /\ gen' = Handed(id)
            /\ last' = Call(op, q, id, e.kind, 1, ErsAfterGet(id)[id])

(***************************************************************************)
(* The logging middleware (LoggerWithConfig), installed with Pre.          *)
(***************************************************************************)
\* err.Error() of an error that is not a *errReply
ErrorText(e) ==
    IF e.kind = "http"
    THEN "code=" \o Itoa(e.code) \o ", message=" \o e.msg
    ELSE e.msg

\* the chain below the middleware has returned: "if err = next(c); err != nil
\* { c.Error(err) }"
LoggerError(q) ==
    /\ cfg.logger
    /\ pc[q] = "returned"
    /\ pc' = [pc EXCEPT ![q] = "logging"]
    /\ IF rerr[q].kind # "nil"
       THEN DefaultHTTPErrorHandler(q, rerr[q], "c.Error")
       ELSE /\ last' = Call("next", q, 0, 0, 0, 0)
            /\ UNCHANGED <<replies, ers, pool, owner, gen, resp, ehCalls>>
    /\ UNCHANGED <<eci18n, opsLeft, method, rerr, logs, via, withLeft, cfg, routeVars>>

Level(status, e) ==
    IF e.kind = "nil" THEN "info"
    ELSE IF status >= 500 THEN "error" ELSE "warn"

PanicText == "%!v(PANIC=Error method: runtime error: invalid memory address or nil pointer dereference)"

\* What the middleware reads from the Error-Reply when it builds the entry.
\* It reads without synchronization: while another request holds the
\* instance the read may also fall between that request's reset and its
\* assignment of the Reply.
Observed(q, er) ==
    {[fields |-> ers[er].fields.m, error |-> Error(replies, ers[er])]}
    \cup (IF owner[er] \notin {0, q}
          THEN {[fields |-> EmptyMap, error |-> PanicText]}
          ELSE {})

LoggerLog(q) ==
    /\ cfg.logger
    /\ pc[q] = "logging"
    /\ pc' = [pc EXCEPT ![q] = "logged"]
    /\ \E seen \in (IF rerr[q].kind = "errReply"
                    THEN Observed(q, rerr[q].er)
                    ELSE {[fields |-> EmptyMap,
                           error |-> IF rerr[q].kind = "nil" THEN NilErr
                                     ELSE ErrorText(rerr[q])]}) :
          /\ logs' = [logs EXCEPT ![q] = Append(@,
                        [level |-> Level(resp[q].status, rerr[q]),
                         status |-> resp[q].status,
                         fields |-> seen.fields,
                         error |-> seen.error,
                         held |-> rerr[q].kind = "errReply" => owner[rerr[q].er] = q])]
          /\ last' = Call("log", q, rerr[q].er, 0, seen.error, 0)
    /\ UNCHANGED <<replyVars, poolVars, method, rerr, resp, via, ehCalls, withLeft, cfg, routeVars>>

\* the chain has returned to ServeHTTP: "if err := h(c); err != nil
\* { e.HTTPErrorHandler(err, c) }", then the context is released
ServeHTTPReturn(q) ==
    /\ pc[q] = (IF cfg.logger THEN "logged" ELSE "returned")
    /\ pc' = [pc EXCEPT ![q] = "done"]
    /\ IF rerr[q].kind # "nil"
       THEN DefaultHTTPErrorHandler(q, rerr[q], "HTTPErrorHandler")
       ELSE /\ last' = Call("ReleaseContext", q, 0, 0, 0, 0)
            /\ UNCHANGED <<replies, ers, pool, owner, gen, resp, ehCalls>>
    /\ UNCHANGED <<eci18n, opsLeft, method, rerr, logs, via, withLeft, cfg, routeVars>>

(***************************************************************************)
(* Go slices of middleware.  A slice is a backing array and a length; its  *)
(* capacity is the length of the array.  append writes in place while the  *)
(* capacity allows and moves to a new array otherwise.                     *)
(***************************************************************************)
NilSlice == [arr |-> 0, len |-> 0]

Free == "-"

cap(A, s) == IF s.arr = 0 THEN 0 ELSE Len(A[s.arr])

\* the elements of s, in order
Elems(A, s) == IF s.len = 0 THEN <<>> ELSE SubSeq(A[s.arr], 1, s.len)

\* growslice: the capacity needed when it is more than twice the old one,
\* twice the old one otherwise, rounded up to one of the capacities the
\* allocator has for slices of func values
GrowCap(old, need) ==
    LET SizeClasses == {1, 2, 3, 4, 6, 8, 10, 12, 14, 16}
        n == IF need > 2 * old THEN need ELSE 2 * old
    IN  CHOOSE c \in SizeClasses :
            c >= n /\ \A d \in SizeClasses : d >= n => c <= d

\* make([]echo.MiddlewareFunc, 0, n)
make(A, n) ==
    [arrays |-> Append(A, [i \in 1..n |-> Free]),
     ret |-> [arr |-> Len(A) + 1, len |-> 0]]

\* append(s, xs...)
append(A, s, xs) ==
    LET n == s.len + Len(xs)
    IN  IF xs = <<>> THEN [arrays |-> A, ret |-> s]
        ELSE IF n <= cap(A, s)
        THEN [arrays |-> [A EXCEPT ![s.arr] =
                            [i \in 1..cap(A, s) |->
                                IF i > s.len /\ i <= n THEN xs[i - s.len]
                                ELSE A[s.arr][i]]],
              ret |-> [arr |-> s.arr, len |-> n]]
        ELSE [arrays |-> Append(A,
                            [i \in 1..GrowCap(cap(A, s), n) |->
                                IF i <= s.len THEN A[s.arr][i]
                                ELSE IF i <= n THEN xs[i - s.len]
                                ELSE Free]),
              ret |-> [arr |-> Len(A) + 1, len |-> n]]

(***************************************************************************)
(* Routers.  A router is the set of its routes; a route holds the handler  *)
(* and the middleware slice that the closure of UEcho.add captured.  The   *)
(* fields group, gm and rm record for the properties which Group the route *)
(* was added through, that Group's middleware at the time and the          *)
(* middleware given for the route.                                         *)
(***************************************************************************)
DefaultRouter == ""

NotFound == "NotFound"

methods == <<MethodGet, MethodHead>>

Route(m, path, h, mw, g, gm, rm) ==
    [method |-> m, path |-> path, handler |-> h, middleware |-> mw,
     group |-> g, gm |-> gm, rm |-> rm]

\* what Find leaves in the context when nothing matches: echo.NotFoundHandler
NoRoute == Route("", "", NotFound, NilSlice, 0, <<>>, <<>>)

\* Router.Add: echo's router takes "" as "/", and a route added for a method
\* and path that are there already replaces the handler
RouterAdd(routes, r) ==
    LET n == [r EXCEPT !.path = IF @ = "" THEN "/" ELSE @]
    IN  {x \in routes : x.method # n.method \/ x.path # n.path} \cup {n}

\* Router.Find: the static route for the path, else the "/*" route with the
\* longest prefix, else nothing
Find(routes, m, path) ==
    LET HasPrefix(s, p) == Len(s) >= Len(p) /\ SubSeq(s, 1, Len(p)) = p
        IsAny(p) == Len(p) >= 2 /\ SubSeq(p, Len(p) - 1, Len(p)) = "/*"
        static == {r \in routes : r.method = m /\ r.path = path}
        any == {r \in routes : /\ r.method = m
                               /\ IsAny(r.path)
                               /\ HasPrefix(path, SubSeq(r.path, 1, Len(r.path) - 1))}
    IN  IF static # {} THEN CHOOSE r \in static : TRUE
        ELSE IF any # {}
        THEN CHOOSE r \in any : \A w \in any : Len(w.path) <= Len(r.path)
        ELSE NoRoute

\* UEcho.findRouter, as the name of the router it returns
findRouter(u, host) ==
    IF DOMAIN u.routers # {} /\ host \in DOMAIN u.routers
    THEN host
    ELSE DefaultRouter

RouterOf(u, name) == IF name = DefaultRouter THEN u.router ELSE u.routers[name]

(***************************************************************************)
(* Registration.  The operators take and return the registration state:   *)
(* the UEcho struct, the Groups and the backing arrays.                    *)
(***************************************************************************)
\* UEcho.add
add(S, host, m, path, h, mw, g, gm, rm) ==
    LET name == findRouter(S.ue, host)
        r == Route(m, path, h, mw, g, gm, rm)
    IN  IF name = DefaultRouter
        THEN [S EXCEPT !.ue.router = RouterAdd(@, r)]
        ELSE [S EXCEPT !.ue.routers[name] = RouterAdd(@, r)]

\* UEcho.Add with the middleware given in the call
EchoAdd(S, m, path, h, xs) ==
    LET a == append(S.arrays, NilSlice, xs)
    IN  add([S EXCEPT !.arrays = a.arrays], "", m, path, h, a.ret, 0, <<>>, xs)

\* Group.Add appending to the Group's own slice
GroupAddShared(S, g, m, path, h, xs) ==
    LET G == S.groups[g]
        a == append(S.arrays, G.middleware, xs)
    IN  add([S EXCEPT !.arrays = a.arrays], G.host, m, G.prefix \o path, h, a.ret,
            g, G.lineage, xs)

\* Group.Add: the Group's middleware and the route's, combined in a new slice
GroupAdd(S, g, m, path, h, xs) ==
    LET G == S.groups[g]
        m0 == make(S.arrays, G.middleware.len + Len(xs))
        m1 == append(m0.arrays, m0.ret, Elems(m0.arrays, G.middleware))
        m2 == append(m1.arrays, m1.ret, xs)
    IN  add([S EXCEPT !.arrays = m2.arrays], G.host, m, G.prefix \o path, h, m2.ret,
            g, G.lineage, xs)

\* Group.Any: one Add per method
RECURSIVE GroupAny(_, _, _, _, _)
GroupAny(S, g, path, h, i) ==
    IF i > Len(methods) THEN S
    ELSE GroupAny(GroupAdd(S, g, methods[i], path, h, <<>>), g, path, h, i + 1)

\* Group.Use
GroupUse(S, g, xs) ==
    LET a == append(S.arrays, S.groups[g].middleware, xs)
        S1 == [S EXCEPT !.arrays = a.arrays,
                        !.groups[g].middleware = a.ret,
                        !.groups[g].lineage = @ \o xs]
    IN  IF a.ret.len = 0 THEN S1
        ELSE GroupAny(GroupAny(S1, g, "", NotFound, 1), g, "/*", NotFound, 1)

NewGroup(host, prefix) ==
    [host |-> host, prefix |-> prefix, middleware |-> NilSlice, lineage |-> <<>>]

\* UEcho.Group; the new Group is the last of the heap
Group(S, prefix, xs) ==
    GroupUse([S EXCEPT !.groups = Append(@, NewGroup("", prefix))],
             Len(S.groups) + 1, xs)

\* UEcho.Host
Host(S, name, xs) ==
    GroupUse([S EXCEPT !.ue.routers = [h \in DOMAIN @ \cup {name} |->
                                          IF h = name THEN {} ELSE @[h]],
                       !.groups = Append(@, NewGroup(name, ""))],
             Len(S.groups) + 1, xs)

\* Group.Group
GroupGroup(S, g, prefix, xs) ==
    LET G == S.groups[g]
        m0 == make(S.arrays, G.middleware.len + Len(xs))
        m1 == append(m0.arrays, m0.ret, Elems(m0.arrays, G.middleware))
        m2 == append(m1.arrays, m1.ret, xs)
        S1 == Group([S EXCEPT !.arrays = m2.arrays], G.prefix \o prefix,
                    Elems(m2.arrays, m2.ret))
        sg == Len(S1.groups)
    IN  [S1 EXCEPT !.groups[sg].host = G.host,
                   !.groups[sg].lineage = G.lineage \o xs]

\* UEcho.Pre
Pre(S, xs) ==
    LET a == append(S.arrays, S.ue.premiddleware, xs)
    IN  [S EXCEPT !.arrays = a.arrays, !.ue.premiddleware = a.ret]

\* UEcho.Use
Use(S, xs) ==
    LET a == append(S.arrays, S.ue.middleware, xs)
    IN  [S EXCEPT !.arrays = a.arrays, !.ue.middleware = a.ret]

(***************************************************************************)
(* The chain of a request.  A handler function is the sequence of events   *)
(* its call runs through; a middleware enters, calls next and leaves, as   *)
(* premw and mw of uecho_test.go do.                                       *)
(***************************************************************************)
Ev(ev, name) == [ev |-> ev, name |-> name]

Middleware(m, next) == <<Ev("enter", m)>> \o next \o <<Ev("leave", m)>>

\* applyMiddleware: h = middleware[i](h) for i from the last down to the first
RECURSIVE applyMiddleware(_, _)
applyMiddleware(h, mws) ==
    IF mws = <<>> THEN h
    ELSE applyMiddleware(Middleware(mws[Len(mws)], h), SubSeq(mws, 1, Len(mws) - 1))

\* the closure UEcho.add registers: the route's middleware around its handler
RouteHandler(A, r) ==
    applyMiddleware(<<Ev("handler", r.handler)>>, Elems(A, r.middleware))

\* a chain that looks the route up before the Pre middleware run
ChainLookupFirst(u, A, host, m, path) ==
    LET name == findRouter(u, host)
        r == Find(RouterOf(u, name), m, path)
    IN  [router |-> name, route |-> r,
         run |-> <<Ev("find", name)>>
                 \o applyMiddleware(
                        applyMiddleware(RouteHandler(A, r), Elems(A, u.middleware)),
                        Elems(A, u.premiddleware))]

\* the chain ServeHTTP builds and runs: the router used, the route found
\* and the events of h(c)
Chain(u, A, host, m, path) ==
    LET name == findRouter(u, host)
        r == Find(RouterOf(u, name), m, path)
        inner == <<Ev("find", name)>>
                 \o applyMiddleware(RouteHandler(A, r), Elems(A, u.middleware))
    IN  [router |-> name, route |-> r,
         run |-> IF u.premiddleware = NilSlice
                 THEN inner
                 ELSE applyMiddleware(inner, Elems(A, u.premiddleware))]

(***************************************************************************)
(* Contexts.  New(logger) gives the logger to the Contexts that pool.New   *)
(* creates.                                                                *)
(***************************************************************************)
AppLogger == "app"

NoLogger == "nil"

StandardLogger == "std"

\* UEcho.pool.New
NewContext == [logger |-> AppLogger]

\* Context.reset
ContextReset(c) == [c EXCEPT !.logger = NoLogger]

\* Context.Logrus
Logrus(c) == IF c.logger # NoLogger THEN c.logger ELSE StandardLogger

(***************************************************************************)
(* The inputs of registration and of the requests.                         *)
(***************************************************************************)
\* the middleware each registration call is given, and the host names
MiddlewareArgs ==
    [Pre      |-> {<<"p1", "p2">>},
     Use      |-> {<<"u1", "u2">>},
     Host     |-> {<<"g0">>},
     Group    |-> {<<"g1", "g2">>},
     GroupUse |-> {<<"g3">>},
     SubGroup |-> {<<"g4">>},
     HostName |-> {"a.com"}]
\* the path, handler and middleware of the routes added to a Group and to
\* the UEcho itself
RouteArgs ==
    [Group |-> {<<"/x", "h1", <<"r1">>>>, <<"/y", "h2", <<"r2">>>>},
     Echo  |-> {<<"/x", "h0", <<"r0">>>>}]
ReqHosts == {"a.com", "b.com"}
ReqPaths == {"/x", "/v1/x", "/s/q"}

NoRequest ==
    [phase |-> "idle", host |-> "", method |-> "", path |-> "", c |-> 0,
     router |-> DefaultRouter, route |-> NoRoute, err |-> FALSE, trace |-> <<>>]

\* the state New() leaves
RouteBoot ==
    /\ ue = [premiddleware |-> NilSlice, middleware |-> NilSlice,
             router |-> {}, routers |-> [h \in {} |-> {}]]
    /\ groups = <<>>
    /\ arrays = <<>>
    /\ ctxs = <<>>
    /\ ctxPool = {}
    /\ rq = NoRequest

Here == [ue |-> ue, groups |-> groups, arrays |-> arrays]

\* a registration call, made before the server starts
Register(S) ==
    /\ budget.regs > 0
    /\ rq.phase = "idle"
    /\ budget' = [budget EXCEPT !.regs = @ - 1]
    /\ ue' = S.ue
    /\ groups' = S.groups
    /\ arrays' = S.arrays
    /\ UNCHANGED <<ctxs, ctxPool, rq, replyVars, poolVars, reqVars, cfg, last>>

CallPre == \E xs \in MiddlewareArgs.Pre : Register(Pre(Here, xs))

CallUse == \E xs \in MiddlewareArgs.Use : Register(Use(Here, xs))

CallHost ==
    \E name \in MiddlewareArgs.HostName \ DOMAIN ue.routers,
       xs \in MiddlewareArgs.Host :
        Register(Host(Here, name, xs))

CallGroup == \E xs \in MiddlewareArgs.Group : Register(Group(Here, "/v1", xs))

CallGroupUse ==
    \E g \in 1..Len(groups), xs \in MiddlewareArgs.GroupUse : Register(GroupUse(Here, g, xs))

CallGroupGroup ==
    \E g \in 1..Len(groups), xs \in MiddlewareArgs.SubGroup :
        Register(GroupGroup(Here, g, "/s", xs))

CallGroupAdd ==
    \E g \in 1..Len(groups), a \in RouteArgs.Group :
        Register(GroupAdd(Here, g, MethodGet, a[1], a[2], a[3]))

CallEchoAdd ==
    \E a \in RouteArgs.Echo : Register(EchoAdd(Here, MethodGet, a[1], a[2], a[3]))

\* ServeHTTP, first part: c := e.AcquireContext(); c.Reset(r, w)
AcquireContext(H, M, P) ==
    \E host \in H, m \in M, path \in P, id \in ctxPool \cup {Len(ctxs) + 1} :
        /\ budget.reqs > 0
        /\ rq.phase \in {"idle", "released"}
        /\ budget' = [budget EXCEPT !.reqs = @ - 1]
        /\ ctxs' = IF id > Len(ctxs) THEN Append(ctxs, NewContext) ELSE ctxs
        /\ ctxPool' = ctxPool \ {id}
        /\ rq' = [NoRequest EXCEPT !.phase = "acquired", !.host = host,
                                   !.method = m, !.path = path, !.c = id,
                                   !.trace = <<Ev("acquire", "")>>]
        /\ UNCHANGED <<ue, groups, arrays, replyVars, poolVars, reqVars, cfg, last>>

\* ServeHTTP, second part: the chain is built and run, and the error handler
\* is called when it returns an error
ExecuteChain ==
    LET ch == Chain(ue, arrays, rq.host, rq.method, rq.path)
        err == ch.route.handler = NotFound
    IN  /\ rq.phase = "acquired"
        /\ rq' = [rq EXCEPT !.phase = "chained", !.router = ch.router,
                            !.route = ch.route, !.err = err,
                            !.trace = @ \o ch.run
                                        \o (IF err THEN <<Ev("HTTPErrorHandler", "")>>
                                            ELSE <<>>)]
        /\ UNCHANGED <<ue, groups, arrays, ctxs, ctxPool, budget, replyVars, poolVars, reqVars, cfg, last>>

\* ServeHTTP, last part: e.ReleaseContext(c)
ReleaseContext ==
    /\ rq.phase = "chained"
    /\ ctxs' = [ctxs EXCEPT ![rq.c] = ContextReset(@)]
    /\ ctxPool' = ctxPool \cup {rq.c}
    /\ rq' = [rq EXCEPT !.phase = "released", !.trace = Append(@, Ev("release", ""))]
    /\ UNCHANGED <<ue, groups, arrays, budget, replyVars, poolVars, reqVars, cfg, last>>

\* the process after init() and New(), before any request; ops is the
\* number of Reply operations the behaviour may make, with the number of
\* With* calls a handler may make on its Error-Reply
Boot(ops, with) ==
    /\ replies = Registry
    /\ eci18n = I18nInit
    /\ ers = <<>>
    /\ pool = EmptyBag
    /\ owner = <<>>
    /\ gen = <<>>
    /\ pc = [q \in Reqs |-> "idle"]
    /\ method = [q \in Reqs |-> MethodGet]
    /\ rerr = [q \in Reqs |-> NoErr]
    /\ resp = [q \in Reqs |-> FreshResponse]
    /\ logs = [q \in Reqs |-> <<>>]
    /\ via = [q \in Reqs |-> NoHandler]
    /\ ehCalls = [q \in Reqs |-> 0]
    /\ cfg \in [debug : BOOLEAN, logger : BOOLEAN]
    /\ opsLeft = ops
    /\ withLeft = [q \in Reqs |-> with]
    /\ last = NoCall
    /\ RouteBoot

Init == Boot(MaxOps, MaxWith) /\ budget = [regs |-> 0, reqs |-> 0]

(***************************************************************************)
(* The specifications.                                                     *)
(*                                                                         *)
(* SpecReply: the Reply interface alone.                                   *)
(* SpecErr:   one handler building an Error-Reply, with every argument.    *)
(* Spec:      concurrent requests sharing errReplyPool, from ServeHTTP to  *)
(*            the release of the Error-Reply.                              *)
(* SpecServe: one request from ServeHTTP to its end, over the canonical    *)
(*            Replies and their clones.                                    *)
(***************************************************************************)
ReplyNext ==
    \/ CallWithHTTPCode
    \/ CallWithEC
    \/ CallWithEM
    \/ CallWithLang
    \/ CallWithData
    \/ CallI18n
    \/ CallAccessors

InitReply == Init /\ ~cfg.debug /\ ~cfg.logger

SpecReply == InitReply /\ [][ReplyNext]_vars

ErrNext ==
    \/ ServeHTTP(1, {MethodGet})
    \/ Abort(1, Canonical)
    \/ CallWithErr(1, ErrArgs)
    \/ CallWithField(1, FieldKeys, FieldVals)
    \/ CallWithFields(1, FieldMaps)
    \/ CallError(1)
    \/ ReturnErrReply(1)

SpecErr == InitReply /\ [][ErrNext]_vars

\* the Replies and arguments the handlers of Spec use
PoolReplies == {OK, ErrIllegalparams, ErrInternal}

\* requests are numbered in the order in which they arrive
Arrived(q) == IF q = 1 THEN TRUE ELSE pc[q - 1] # "idle"

Next ==
    \E q \in Reqs :
        \/ Arrived(q) /\ ServeHTTP(q, {MethodGet})
        \/ Abort(q, PoolReplies)
        \/ NotFoundHandler(q)
        \/ MethodNotAllowedHandler(q)
        \/ CallWithErr(q, {"db down"})
        \/ CallWithField(q, {"rpc"}, {"/svc"})
        \/ ReturnErrReply(q)
        \/ CallSetPayload(q, PoolReplies)
        \/ ReturnError(q)
        \/ LoggerError(q)
        \/ LoggerLog(q)
        \/ ServeHTTPReturn(q)

InitPool == Boot(0, PoolWith) /\ ~cfg.debug /\ budget = [regs |-> 0, reqs |-> 0]

Spec == InitPool /\ [][Next]_vars

\* the Replies the handlers of SpecServe use: those of Spec and every clone
ServeReplies == PoolReplies \cup (Len(Registry) + 1 .. Len(replies))

ServeNext ==
    \/ CallWithHTTPCode
    \/ CallWithEC
    \/ CallWithData
    \/ ServeHTTP(1, Methods)
    \/ Abort(1, ServeReplies)
    \/ CallWithErr(1, {"db down"})
    \/ CallWithField(1, {"rpc"}, {"/svc"})
    \/ ReturnErrReply(1)
    \/ CallSetPayload(1, ServeReplies)
    \/ NotFoundHandler(1)
    \/ ReturnError(1)
    \/ WriteJSON(1)
    \/ LoggerError(1)
    \/ LoggerLog(1)
    \/ ServeHTTPReturn(1)

InitServe == Boot(ServeOps, ServeWith) /\ budget = [regs |-> 0, reqs |-> 0]

SpecServe == InitServe /\ [][ServeNext]_vars

RouteNext ==
    \/ CallPre
    \/ CallUse
    \/ CallHost
    \/ CallGroup
    \/ CallGroupUse
    \/ CallGroupGroup
    \/ CallGroupAdd
    \/ CallEchoAdd
    \/ AcquireContext(ReqHosts, {MethodGet}, ReqPaths)
    \/ ExecuteChain
    \/ ReleaseContext

InitRoute ==
    Boot(0, 0) /\ ~cfg.debug /\ ~cfg.logger
               /\ budget = [regs |-> MaxRegs, reqs |-> RouteReqs]

SpecRoute == InitRoute /\ [][RouteNext]_vars

CtxNext ==
    \/ AcquireContext(ReqHosts, Methods, ReqPaths)
    \/ ExecuteChain
    \/ ReleaseContext

InitCtx ==
    Boot(0, 0) /\ ~cfg.debug /\ ~cfg.logger
               /\ budget = [regs |-> 0, reqs |-> MaxReqs]

SpecCtx == InitCtx /\ [][CtxNext]_vars

(***************************************************************************)
(* Properties of the Reply value, checked under SpecReply.                 *)
(***************************************************************************)
WithOps == {"WithHTTPCode", "WithEC", "WithEM", "WithLang", "WithData"}

\* the receiver's struct with the one field a With* call names set to x
WithSet(rec, op, x) ==
    CASE op = "WithHTTPCode" -> [rec EXCEPT !.httpCode = x]
      [] op = "WithEC" -> [rec EXCEPT !.ec = x]
      [] op = "WithEM" -> [rec EXCEPT !.em = x]
      [] op = "WithLang" -> [rec EXCEPT !.lang = x]
      [] op = "WithData" -> [rec EXCEPT !.data = x]

\* C1: after r.WithHTTPCode(x), r.WithEC(x), r.WithEM(x), r.WithLang(x) or
\* r.WithData(x) the Reply returned is another Reply than r, it has the
\* named field set to x and every other field equal to r's, and the five
\* fields of r are what they were before the call.
C1_CopyOnWrite ==
    last.op \in WithOps =>
        /\ last.ret # last.recv
        /\ replies[last.ret] = WithSet(last.pre, last.op, last.arg)
        /\ replies[last.recv] = last.pre

\* a With* call has returned a Reply that differs from its receiver
C1_Witness ==
    /\ last.op = "WithEC"
    /\ replies[last.ret].ec = last.arg
    /\ replies[last.recv].ec # last.arg
    /\ replies[last.ret].httpCode = replies[last.recv].httpCode

\* C5: after any sequence of Reply operations every field of the canonical
\* Replies OK, ErrIllegalparams, ErrUnauthorized, ErrNotFound,
\* ErrMethodNotAllowed and ErrInternal has the value it had at process
\* initialization.
C5_RegistryImmutable == \A r \in Canonical : replies[r] = Registry[r]

\* C9: I18n(t) on a Reply with business code c returns the string stored
\* under the key "<c>.<t>" when the table has that key and the empty string
\* when it has not, and the table is what init() made it.
C9_Localization ==
    /\ eci18n = I18nInit
    /\ last.op = "I18n" =>
          LET hits == {e \in I18nEntries :
                          /\ e[1] = Itoa(replies[last.recv].ec) \o "."
                          /\ e[2] = last.arg}
          IN  /\ \A e \in hits : last.ret = e[3]
              /\ hits = {} => last.ret = ""

\* I18n has found the text of a business code that no canonical Reply has
C9_Witness ==
    /\ last.op = "I18n"
    /\ replies[last.recv].ec = 10302
    /\ last.ret = "Encrypt Method has been changed!"

(***************************************************************************)
(* Properties of the Error-Reply, checked under SpecErr.                   *)
(***************************************************************************)
\* C6: WithErr(e) with a non-nil e leaves the accumulated cause equal to
\* the cause before the call followed by e, so that no earlier error is
\* discarded or overwritten; Error() then shows every accumulated error;
\* and WithErr returns the instance it was called on.
C6_Accumulation ==
    (last.op = "WithErr" /\ last.arg # NilErr) =>
        /\ ers[last.recv].err = last.pre.err \o <<last.arg>>
        /\ \A i \in 1..Len(ers[last.recv].err) :
              Contains(Error(replies, ers[last.recv]), ers[last.recv].err[i])
        /\ last.ret = last.recv
        /\ rerr[last.q].er = last.recv

\* two different errors have been joined into one Error-Reply
C6_Witness ==
    /\ last.op = "WithErr"
    /\ Len(ers[last.recv].err) = 2
    /\ ers[last.recv].err[1] # ers[last.recv].err[2]

\* the mapping new is the mapping old with the pairs of f written over it
MergedInto(old, f, new) ==
    /\ DOMAIN new = (DOMAIN old) \cup (DOMAIN f)
    /\ \A k \in DOMAIN f : new[k] = f[k]
    /\ \A k \in (DOMAIN old) \ (DOMAIN f) : new[k] = old[k]

\* C7: WithFields(m) leaves fields[k] = m[k] for every key of m and every
\* other key as it was; WithField(k, v) does what WithFields({k: v}) does;
\* both leave the mapping allocated, touch nothing else of the instance and
\* return the instance they were called on.
C7_FieldMerge ==
    /\ last.op = "WithFields" =>
          /\ MergedInto(last.pre.fields.m, last.arg, ers[last.recv].fields.m)
          /\ ~ers[last.recv].fields.isNil
          /\ ers[last.recv] = [last.pre EXCEPT !.fields = ers[last.recv].fields]
          /\ last.ret = last.recv
    /\ last.op = "WithField" =>
          /\ MergedInto(last.pre.fields.m, [k \in {last.arg[1]} |-> last.arg[2]],
                        ers[last.recv].fields.m)
          /\ ~ers[last.recv].fields.isNil
          /\ ers[last.recv] = [last.pre EXCEPT !.fields = ers[last.recv].fields]
          /\ last.ret = last.recv

\* a later WithFields has overwritten one key and kept the other
C7_Witness ==
    /\ last.op = "WithFields"
    /\ DOMAIN last.arg = {"rpc"}
    /\ DOMAIN last.pre.fields.m = {"rpc", "uid"}
    /\ last.pre.fields.m["rpc"] # last.arg["rpc"]
    /\ ers[last.recv].fields.m["rpc"] = last.arg["rpc"]
    /\ ers[last.recv].fields.m["uid"] = last.pre.fields.m["uid"]

\* what C8 says of the string an Error() call returned
C8_Rendered ==
    LET e == ers[last.recv]
        em == replies[e.Reply].em
        out == last.ret
    IN  IF e.err = <<>>
        THEN out = "code: " \o Itoa(replies[e.Reply].ec) \o ", " \o em
        ELSE /\ \A i \in 1..Len(e.err) : Contains(out, e.err[i])
             /\ Len(out) > Len(em)
             /\ SubSeq(out, Len(out) - Len(em), Len(out)) = "\n" \o em

\* C8: Error() returns "code: <businessCode>, <message>" of the wrapped
\* Reply when there is no cause, and every accumulated cause followed by
\* the wrapped Reply's message when there is one; the call changes no
\* Error-Reply and no Reply.  (A step that calls Error() changes the heaps or
\* the call on record, so the subscript leaves no such step unexamined.)
C8_ErrorRendering ==
    [][(last'.op = "Error") => (ers' = ers /\ replies' = replies /\ C8_Rendered')
      ]_<<ers, replies, last.op, last.q, last.recv, last.pre>>

\* Error() has rendered an Error-Reply that holds two causes
C8_Witness ==
    /\ last.op = "Error"
    /\ Len(ers[last.recv].err) = 2
    /\ ers[last.recv].err[1] # ers[last.recv].err[2]
    /\ replies[ers[last.recv].Reply].em # ""

(***************************************************************************)
(* Properties of errReplyPool, checked under Spec.                         *)
(***************************************************************************)
AcquireOps == {"Abort", "NotFoundHandler", "MethodNotAllowedHandler"}

HandlerOps == {"c.Error", "HTTPErrorHandler"}

\* C2: an Error-Reply handed out by Context.Abort, NotFoundHandler or
\* MethodNotAllowedHandler, and one the error handler acquires for itself,
\* has no cause and no fields and wraps the Reply of this acquisition,
\* whatever an earlier request left in the instance.
C2_Isolation ==
    /\ last.op \in AcquireOps =>
          ers[last.ret] = [Reply |-> last.arg, err |-> <<>>, fields |-> NilFields]
    /\ (last.op \in HandlerOps /\ last.ret = 1 /\ last.arg # "errReply") =>
          ers[last.recv] = [Reply |-> Len(replies), err |-> <<>>, fields |-> NilFields]

\* Abort has handed out a pooled instance that still held the fields and
\* the Reply of the request before
C2_Witness ==
    /\ last.op = "Abort"
    /\ gen[last.ret] >= 2
    /\ ~last.pre.fields.isNil
    /\ last.pre.Reply # 0

\* C3: the logging middleware, like every other code of a request, reads
\* an Error-Reply only while the request holds it: never after the error
\* handler has returned it to the pool.
C3_NoUseAfterRelease ==
    \A q \in Reqs : \A i \in 1..Len(logs[q]) : logs[q][i].held

\* C4: every Error-Reply is reset before it goes back to the pool, so each
\* instance resting in the pool is blank: no Reply, no cause, no fields.
C4_PoolBlank == \A id \in BagToSet(pool) : ers[id] = ZeroEr

SeverityOf(status) ==
    IF status >= 500 THEN "error" ELSE IF status >= 400 THEN "warn" ELSE "info"

\* C11: a request that went through the logging middleware has exactly one
\* log entry when it ends, and every entry has the level of the response
\* status: error from 500, warning from 400 to 499, info below, however the
\* handler produced the status.
C11_SeverityByStatus ==
    \A q \in Reqs :
        /\ (cfg.logger /\ pc[q] = "done") => Len(logs[q]) = 1
        /\ \A i \in 1..Len(logs[q]) :
               logs[q][i].level = SeverityOf(logs[q][i].status)

\* C12: when the error handler writes a JSON body its message is the
\* rendered error chain exactly when Debug is on; with Debug off it is the
\* message of the wrapped Reply and holds no cause, no field key and no
\* field value of the Error-Reply.
C12_DebugGating ==
    (last.op \in HandlerOps /\ last.ret = 1 /\ method[last.q] # MethodHead) =>
        LET er == ers[last.recv]
            msg == resp[last.q].body.EM
        IN  /\ (msg = Error(replies, er)) <=> cfg.debug
            /\ ~cfg.debug =>
                  /\ msg = replies[er.Reply].em
                  /\ \A i \in 1..Len(er.err) : ~Contains(msg, er.err[i])
                  /\ \A k \in DOMAIN er.fields.m :
                         ~Contains(msg, k) /\ ~Contains(msg, er.fields.m[k])

\* with Debug off the error handler has answered for an Error-Reply that
\* holds a cause and a field
C12_Witness ==
    /\ last.op \in HandlerOps
    /\ last.ret = 1
    /\ method[last.q] # MethodHead
    /\ ~cfg.debug
    /\ ers[last.recv].err # <<>>
    /\ DOMAIN ers[last.recv].fields.m # {}
    /\ resp[last.q].hasBody

\* C13: the status written for a Reply is its httpCode, on the error path
\* (the error handler, for every request method) and on the normal path
\* (SetPayload), also when the business code differs.
C13_StatusIsHTTPCode ==
    /\ (last.op \in HandlerOps /\ last.ret = 1) =>
           resp[last.q].status = replies[ers[last.recv].Reply].httpCode
    /\ (last.op = "SetPayload" /\ last.ret = 0) =>
           resp[last.q].status = replies[last.arg].httpCode

Keys(w) == {w[i][1] : i \in 1..Len(w)}

\* C14: a serialized body always has the member ec, has em only when the
\* message is not empty and has data only when there is a payload.
C14_Envelope ==
    \A q \in Reqs :
        resp[q].hasBody =>
            LET k == Keys(resp[q].wire)
            IN  /\ "ec" \in k
                /\ "em" \in k <=> resp[q].body.EM # ""
                /\ "data" \in k <=> resp[q].body.Data # NilData

\* C15: a call of DefaultHTTPErrorHandler on a committed response changes
\* nothing; otherwise it answers an Error-Reply as it is, a framework HTTP
\* error (n, m) as httpCode n, business code n, message m, any other error
\* as 500, 500, "Internal Server Error", and leaves exactly the one
\* Error-Reply it used in the pool, once.
C15_Normalisation ==
    [][\A q \in Reqs :
          ehCalls'[q] # ehCalls[q] =>
              IF resp[q].committed
              THEN /\ resp' = resp
                   /\ replies' = replies
                   /\ ers' = ers
                   /\ pool' = pool
                   /\ owner' = owner
              ELSE LET e == rerr[q]
                       id == last'.recv
                       r == replies'[ers'[id].Reply]
                   IN  /\ e.kind = "errReply" =>
                              id = e.er /\ ers'[id] = ers[id] /\ replies' = replies
                                        /\ CopiesIn(id, pool) = 0
                       /\ e.kind = "http" =>
                              r.httpCode = e.code /\ r.ec = e.code /\ r.em = e.msg
                       /\ e.kind = "other" =>
                              r.httpCode = 500 /\ r.ec = 500
                                               /\ r.em = "Internal Server Error"
                       /\ resp'[q].committed
                       /\ method[q] # MethodHead =>
                              /\ resp'[q].status = r.httpCode
                              /\ resp'[q].body.EC = r.ec
                       /\ CopiesIn(id, pool') = 1
                       /\ \A j \in 1..Len(ers') :
                              j # id => CopiesIn(j, pool') = CopiesIn(j, pool)
      ]_ehCalls

\* the logging middleware had a framework HTTP error answered, and the
\* second call, from ServeHTTP, found the response committed
C15_Witness ==
    \E q \in Reqs :
        /\ pc[q] = "done"
        /\ rerr[q].kind = "http"
        /\ ehCalls[q] = 2
        /\ last.op = "HTTPErrorHandler"
        /\ last.ret = 0
        /\ resp[q].status = StatusNotFound

(***************************************************************************)
(* Properties of registration and routing, checked under SpecRoute.        *)
(***************************************************************************)
\* the position of the handler's event in the trace of the request
HandlerAt == CHOOSE k \in 1..Len(rq.trace) : rq.trace[k].ev = "handler"

Count(ev) == Cardinality({k \in 1..Len(rq.trace) : rq.trace[k].ev = ev})

\* C16: in the trace of a served request the context is acquired first, the
\* Pre middleware enter in registration order, then the one route lookup is
\* made in the router of the request's host, then the Use middleware enter
\* in registration order, then the handler runs; the middleware leave in
\* the reverse order, the error handler runs after the chain exactly when
\* the chain returned an error, and the release of the context comes last.
C16_PreRouteUse ==
    rq.phase = "released" =>
        LET t == rq.trace
            n == Len(t)
            pre == Elems(arrays, ue.premiddleware)
            use == Elems(arrays, ue.middleware)
            f == Len(pre) + 2
            e == IF rq.err THEN 1 ELSE 0
        IN  /\ t[1] = Ev("acquire", "")
            /\ \A i \in 1..Len(pre) : t[1 + i] = Ev("enter", pre[i])
            /\ t[f] = Ev("find", IF rq.host \in DOMAIN ue.routers THEN rq.host
                                  ELSE DefaultRouter)
            /\ Count("find") = 1
            /\ \A j \in 1..Len(use) : t[f + j] = Ev("enter", use[j])
            /\ Count("handler") = 1
            /\ HandlerAt > f + Len(use)
            /\ \A j \in 1..Len(use) : t[n - e - Len(pre) - j] = Ev("leave", use[j])
            /\ \A i \in 1..Len(pre) : t[n - e - i] = Ev("leave", pre[i])
            /\ Count("HTTPErrorHandler") = e
            /\ rq.err => t[n - 1] = Ev("HTTPErrorHandler", "")
            /\ t[n] = Ev("release", "")
            /\ Count("release") = 1

\* a request was served with two Pre and two Use middleware, its route was
\* not found and the error handler answered
C16_Witness ==
    /\ rq.phase = "released"
    /\ ue.premiddleware.len = 2
    /\ ue.middleware.len = 2
    /\ rq.err
    /\ rq.route.group # 0

AllRoutes == UNION {RouterOf(ue, name) : name \in ({DefaultRouter} \cup DOMAIN ue.routers)}

\* C17: every Group holds the middleware of its parents followed by its own
\* in Use order; every route keeps the middleware its Group had when it was
\* added followed by the route's own, whatever is added later; and a request
\* that matches the route enters them in that order right before the
\* handler and leaves them in the reverse order right after it.
C17_Nesting ==
    /\ \A g \in 1..Len(groups) :
           Elems(arrays, groups[g].middleware) = groups[g].lineage
    /\ \A r \in AllRoutes : Elems(arrays, r.middleware) = r.gm \o r.rm
    /\ (rq.phase = "released" /\ rq.route.group # 0) =>
           LET ms == rq.route.gm \o rq.route.rm
               k == HandlerAt
           IN  /\ rq.trace[k] = Ev("handler", rq.route.handler)
               /\ \A i \in 1..Len(ms) :
                      /\ rq.trace[k - Len(ms) + i - 1] = Ev("enter", ms[i])
                      /\ rq.trace[k + Len(ms) - i + 1] = Ev("leave", ms[i])

\* a request matched a route with three Group middleware and one of its
\* own, of a Group that has a second route
C17_Witness ==
    /\ rq.phase = "released"
    /\ rq.route.group # 0
    /\ Len(rq.route.gm) = 3
    /\ Len(rq.route.rm) = 1
    /\ \E r \in AllRoutes :
           r.group = rq.route.group /\ r.rm # <<>> /\ r.path # rq.route.path

\* C18: every route added through a Group is in the router of the Group's
\* host (the host's own router when Host registered one, the default
\* router otherwise), and a request never matches a route of a Group whose
\* host is not the request's.
C18_HostRouting ==
    /\ \A name \in ({DefaultRouter} \cup DOMAIN ue.routers) : \A r \in RouterOf(ue, name) :
           r.group # 0 => findRouter(ue, groups[r.group].host) = name
    /\ (rq.phase \in {"chained", "released"} /\ rq.route.group # 0) =>
           groups[rq.route.group].host \in {"", rq.host}

(***************************************************************************)
(* Properties of the Context pool, checked under SpecCtx.                  *)
(***************************************************************************)
\* C19: the Context of a request being served, new or recycled, gives the
\* logger that New was called with.
C19_LoggerKept ==
    rq.phase \in {"acquired", "chained"} => Logrus(ctxs[rq.c]) = AppLogger

====
